---- MODULE Spec2Model ----
(***************************************************************************)
(* A model of the quick-CSF estimator of src/qCSF/qcsf.py (class QCSF and  *)
(* the module-level mapping functions).                                    *)
(*                                                                         *)
(* Numbers.  The program computes in float64.  The model computes in       *)
(* fixed point: log-sensitivities, log-frequencies and the arguments of    *)
(* exp and log are integers in units of 1/Scale, response probabilities    *)
(* are integers in units of 1/PScale.  The posterior is kept exactly, as a *)
(* vector of integer numerators over one common denominator, so that       *)
(* "sums to 1" and "same posterior" are exact statements.                  *)
(*                                                                         *)
(* Arrays.  A numpy column of flat indices is a sequence of naturals; a    *)
(* row of a multi-index array is a sequence with dimension i of the        *)
(* program at position i+1.  None is the empty sequence, the 1x1 array     *)
(* [[x]] is <<x>>.                                                         *)
(***************************************************************************)
EXTENDS Integers, Sequences, FiniteSets, TLC

VARIABLES
    stimulusRanges,            \* self.stimulusRanges
    parameterRanges,           \* self.parameterRanges
    probabilities,             \* self.probabilities, [num, den]
    currentStimulusIndex,      \* self.currentStimulusIndex
    currentStimParamIndices,   \* self.currentStimParamIndices
    responseHistory,           \* self.responseHistory
    gain,                      \* next(): the local gain, <<>> outside next()
    randIndex,                 \* next(): the local randIndex, -1 outside
    protocol,                  \* observer: the call protocol's state
    updates,                   \* observer: Bayesian updates applied so far
    lastCall,                  \* observer: the last call and its outcome
    pureCall                   \* the last call of a pure function, with its result

vars == <<stimulusRanges, parameterRanges, probabilities, currentStimulusIndex,
          currentStimParamIndices, responseHistory, gain, randIndex, protocol,
          updates, lastCall, pureCall>>

estimatorVars == <<stimulusRanges, parameterRanges, probabilities,
                   currentStimulusIndex, currentStimParamIndices,
                   responseHistory, gain, randIndex, protocol, updates, lastCall>>

-----------------------------------------------------------------------------
(* Fixed point *)

\* One unit of a log quantity is 1/Scale.
Scale == 10^3

\* One unit of a response probability is 1/PScale.
PScale == 10^2

\* ln(10), log10(2) and e in units of 1/Scale.
Ln10 == 2303
Log10Of2 == 301
EulerE == 2718

\* self.d = 0.5 and self.sig = 0.25 in units of 1/Scale.
d == 500
sig == 250

Max(a, b) == IF a >= b THEN a ELSE b

\* The function f, tabulated: its values are computed once, not at each use.
Tabulated(f) == f @@ <<>>

RECURSIVE ScaleByE(_, _)
\* x * e^k
ScaleByE(x, k) ==
    IF k = 0 THEN x
    ELSE IF k > 0 THEN ScaleByE((x * EulerE) \div Scale, k - 1)
    ELSE ScaleByE((x * Scale) \div EulerE, k + 1)

\* numpy.exp: e^(zm/Scale) in units of 1/Scale, by e^k * e^r with 0 <= r < 1
\* and e^r from its Taylor polynomial of degree 5.
ExpFix(zm) ==
    LET k == zm \div Scale
        r == zm % Scale
        r2 == (r * r) \div Scale
        r3 == (r2 * r) \div Scale
        er == Scale + r + r2 \div 2 + r3 \div 6 + (r2 * r2) \div (24 * Scale)
                    + (r2 * r3) \div (120 * Scale)
    IN  ScaleByE(er, k)

\* numpy.power(10, x)
Pow10(xm) == ExpFix((xm * Ln10) \div Scale)

RECURSIVE LnFix(_)
\* numpy.log of x/Scale for 0 < x <= Scale, in units of 1/Scale:
\* doubling brings x into [Scale/2, Scale], where ln x = 2 atanh((x-1)/(x+1)).
LnFix(x) ==
    IF 2 * x < Scale THEN LnFix(2 * x) + LnFix(Scale \div 2)
    ELSE LET y == ((x - Scale) * Scale) \div (x + Scale)
             y3 == (y * y * y) \div (Scale * Scale)
             y5 == (y3 * y * y) \div (Scale * Scale)
         IN  2 * (y + y3 \div 3 + y5 \div 5)

RECURSIVE SumSeq(_)
SumSeq(s) == IF s = <<>> THEN 0 ELSE s[1] + SumSeq(Tail(s))

RECURSIVE ProdSeq(_)
\* numpy.prod
ProdSeq(s) == IF s = <<>> THEN 1 ELSE s[1] * ProdSeq(Tail(s))

-----------------------------------------------------------------------------
(* Index codec *)

RECURSIVE InflateLoop(_, _, _)
\* The loop of _inflate: dimension i takes the running remainder (kept in the
\* last column) modulo its cardinality, the last column keeps the quotient.
InflateLoop(indices, ranges, i) ==
    IF i >= Len(ranges) THEN indices
    ELSE InflateLoop(
            [indices EXCEPT ![i] = indices[Len(ranges)] % ranges[i],
                            ![Len(ranges)] = indices[Len(ranges)] \div ranges[i]],
            ranges, i + 1)

\* A plausible slip: the running remainder is never divided.
InflateNoDivide(index, ranges) ==
    [i \in 1..Len(ranges) |-> IF i < Len(ranges) THEN index % ranges[i] ELSE index]

\* _inflate for one row: index.repeat(dimensions, 1), then the loop.
Inflate(index, ranges) ==
    InflateLoop([i \in 1..Len(ranges) |-> index], ranges, 1)

-----------------------------------------------------------------------------
(* Parameter mapping and the sensitivity model *)

\* mapCSFParams(params) without exponify, for one row of parameter indices:
\* <<peakSensitivity, peakFrequency, bandwidth, delta>>.
mapCSFParams(params) ==
    << 100 * params[1] + 300,
       -700 + 100 * params[2],
       50 * params[3],
       Pow10(-1700 + 100 * params[4]) >>

\* A plausible slip: min for max in the cutoff.
CsfCutoffMin(sensitivity, peakSensitivity, delta) ==
    IF sensitivity <= peakSensitivity - delta THEN sensitivity
    ELSE peakSensitivity - delta

\* Scutoff = numpy.maximum(sensitivity, peakSensitivity-delta)
CsfCutoff(sensitivity, peakSensitivity, delta) ==
    Max(sensitivity, peakSensitivity - delta)

\* csf for one row of parameter indices and one frequency index.
csf(parameters, freqNum) ==
    LET m == mapCSFParams(parameters)
        peakSensitivity == m[1]
        peakFrequency == m[2]
        logBandwidth == m[3]
        delta == m[4]
        freq == -700 + 100 * freqNum
        divisor == Log10Of2 + logBandwidth
        tmpVal == (4 * Log10Of2 * (freq - peakFrequency) * (freq - peakFrequency))
                      \div (divisor * divisor)
        sensitivity == Max(0, peakSensitivity - tmpVal)
        Scutoff == CsfCutoff(sensitivity, peakSensitivity, delta)
    IN  IF freq < peakFrequency THEN Scutoff ELSE sensitivity

-----------------------------------------------------------------------------
(* Response probability *)

\* 1 - d / (1 + exp((csfValue - sensitivity) / sig)), sensitivity being
\* 0.1 * contrast index; in units of 1/PScale.
PmeasValue(csfValue, contrastIdx) ==
    PScale - (d * PScale) \div (Scale + ExpFix(((csfValue - 100 * contrastIdx) * Scale) \div sig))

\* The test of the special case: stimulusIndices.shape[1] == self.stimComboCount;
\* stimulusIndices is the inflated array, one column per stimulus dimension.
PmeasTakesBulk(sRanges) == Len(sRanges) = ProdSeq(sRanges)

\* The columns of _pmeas's result on the special-case branch, as the
\* <<contrast index, frequency index>> each pairs: csfValues[:, a*b] reshaped
\* has one column per (contrast c, frequency f) at c * F + f, and sensitivity
\* has one entry per given stimulus (broadcast when only one is given).
PmeasBulkColumns(stimulusIndices, sRanges) ==
    [j \in 1..(sRanges[1] * sRanges[2]) |->
        << IF Len(stimulusIndices) = 1 THEN stimulusIndices[1][1]
           ELSE stimulusIndices[j][1],
           (j - 1) % sRanges[2] >>]

\* The columns on the general branch: stimulus j's own digits.
PmeasGeneralColumns(stimulusIndices) ==
    [j \in 1..Len(stimulusIndices) |-> << stimulusIndices[j][1], stimulusIndices[j][2] >>]

\* The columns _pmeas computes for a sequence of flat stimulus indices.
PmeasColumns(stimulusIndex, sRanges) ==
    LET stimulusIndices == [k \in 1..Len(stimulusIndex) |-> Inflate(stimulusIndex[k], sRanges)]
    IN  IF PmeasTakesBulk(sRanges) THEN PmeasBulkColumns(stimulusIndices, sRanges)
        ELSE PmeasGeneralColumns(stimulusIndices)

\* _pmeas for one flat parameter index and a sequence of flat stimulus
\* indices: the row of the result.
Pmeas(parameterIndex, stimulusIndex, pRanges, sRanges) ==
    LET parameters == Inflate(parameterIndex, pRanges)
        cols == PmeasColumns(stimulusIndex, sRanges)
    IN  [j \in 1..Len(cols) |-> PmeasValue(csf(parameters, cols[j][2]), cols[j][1])]

-----------------------------------------------------------------------------
(* Bounds and the grids the estimator is constructed with *)

\* The trial history is capped at MaxTrials records.
MaxTrials == 2

\* The trial loop of the script runs DriverTrials times (24 in the program).
DriverTrials == 1

\* next() draws randomSampleCount parameter samples (100 in the program).
randomSampleCount == 2

\* numpy.random.rand() is u / RandRes for u in 0..RandRes-1.
RandRes == 4

\* The stimulus and parameter grids (the lengths of the constructor's
\* stimulusSpace and parameterSpace rows) of the specifications.
StimulusSpaces == {<<2, 2>>}
DriverStimulusSpaces == {<<5, 4>>, <<3, 2>>}
ParameterSpaces == {<<2, 2, 1, 2>>}

-----------------------------------------------------------------------------
(* Posterior *)

RECURSIVE GCD(_, _)
GCD(a, b) == IF b = 0 THEN a ELSE GCD(b, a % b)

RECURSIVE GCDSeq(_)
GCDSeq(s) == IF s = <<>> THEN 0 ELSE GCD(s[1], GCDSeq(Tail(s)))

\* The same rational vector in lowest terms.
Reduce(post) ==
    LET g == GCD(post.den, GCDSeq(post.num))
    IN  IF g <= 1 THEN post
        ELSE [num |-> [i \in 1..Len(post.num) |-> post.num[i] \div g],
              den |-> post.den \div g]

\* numpy.ones((paramComboCount,1))/paramComboCount
Uniform(paramComboCount) ==
    [num |-> [i \in 1..paramComboCount |-> 1], den |-> paramComboCount]

\* The likelihood of a response to one stimulus, per flat parameter index:
\* pm, or 1-pm for a negative response.
Likelihood(response, stimIndex, pRanges, sRanges) ==
    [i \in 1..ProdSeq(pRanges) |->
        LET pm == Pmeas(i - 1, stimIndex, pRanges, sRanges)[1]
        IN  IF response THEN pm ELSE PScale - pm]

\* The likelihoods of every trial on every grid, computed once.
LikelihoodTable ==
    [sRanges \in StimulusSpaces \cup DriverStimulusSpaces |->
        [pRanges \in ParameterSpaces |->
            [response \in BOOLEAN |->
                Tabulated([s \in 0..(ProdSeq(sRanges) - 1) |->
                    Tabulated(Likelihood(response, <<s>>, pRanges, sRanges))])]]]

\* A plausible slip: the posterior is assigned the likelihood.
MultiplyOverwrite(post, lik) == [num |-> lik, den |-> PScale]

\* numpy.multiply(self.probabilities, pm)
Multiply(post, lik) ==
    [num |-> [i \in 1..Len(post.num) |-> post.num[i] * lik[i]],
     den |-> post.den * PScale]

\* A plausible slip: the division by the sum is left out.
NormalizeSkipped(post) == Reduce(post)

\* self.probabilities/numpy.sum(self.probabilities): num/den divided by
\* sum(num)/den is num/sum(num).
Normalize(post) == Reduce([num |-> post.num, den |-> SumSeq(post.num)])

\* The Bayesian update of markResponse.
Update(post, response, stimIndex, pRanges, sRanges) ==
    Normalize(Multiply(post, LikelihoodTable[sRanges][pRanges][response][stimIndex[1]]))

\* params = self.inflateParameterIndex(numpy.arange(paramComboCount)) of
\* margin, on every parameter grid, computed once.
InflatedParameters ==
    Tabulated([pRanges \in ParameterSpaces |->
        Tabulated([i \in 0..(ProdSeq(pRanges) - 1) |-> Inflate(i, pRanges)])])

\* A plausible slip: the mask compares the first parameter column.
MarginFirstColumn(parameterIndex) ==
    [v \in 0..(parameterRanges[parameterIndex] - 1) |->
        SumSeq([i \in 1..Len(probabilities.num) |->
            IF InflatedParameters[parameterRanges][i - 1][1] = v
            THEN probabilities.num[i] ELSE 0])]

\* margin(parameterIndex): the numerators of pMarg over probabilities.den;
\* parameterIndex counts from 1.
margin(parameterIndex) ==
    [v \in 0..(parameterRanges[parameterIndex] - 1) |->
        SumSeq([i \in 1..Len(probabilities.num) |->
            IF InflatedParameters[parameterRanges][i - 1][parameterIndex] = v
            THEN probabilities.num[i] ELSE 0])]

-----------------------------------------------------------------------------
(* Stimulus selection *)

\* entropy(p) for p in units of 1/Scale
entropy(p) == (- p * LnFix(p) - (Scale - p) * LnFix(Scale - p)) \div Scale

\* The outcomes of numpy.random.choice(..., randomSampleCount, p=...), up to
\* their order (only sums over the samples are taken): non-decreasing
\* sequences of flat parameter indices.
SampleSets(paramComboCount) ==
    {ss \in [1..randomSampleCount -> 0..(paramComboCount - 1)] :
        \A k \in 1..(randomSampleCount - 1) : ss[k] <= ss[k + 1]}

\* p = self._pmeas(paramIndicies, stimIndicies) of next(), for each flat
\* parameter index one row over numpy.arange(self.stimComboCount), in units
\* of 1/Scale; computed once per grid.
PmeasGridTable ==
    [sRanges \in StimulusSpaces \cup DriverStimulusSpaces |->
        [pRanges \in ParameterSpaces |->
            Tabulated([i \in 0..(ProdSeq(pRanges) - 1) |->
                LET stimIndicies == [j \in 1..ProdSeq(sRanges) |-> j - 1]
                    row == Pmeas(i, stimIndicies, pRanges, sRanges)
                IN  Tabulated([j \in 1..Len(row) |-> row[j] * (Scale \div PScale)])])]]

\* gain = entropy(pbar) - hbar over the whole stimulus grid, for the sampled
\* parameters ss; entry j+1 belongs to flat stimulus index j.
Gain(ss, pRanges, sRanges) ==
    LET p == [k \in 1..Len(ss) |-> PmeasGridTable[sRanges][pRanges][ss[k]]]
    IN  [j \in 1..Len(p[1]) |->
            LET pbar == SumSeq([k \in 1..Len(ss) |-> p[k][j]]) \div Len(ss)
                hbar == SumSeq([k \in 1..Len(ss) |-> entropy(p[k][j])]) \div Len(ss)
            IN  entropy(pbar) - hbar]

\* The gains of every sample on every grid, computed once.
GainTable ==
    [sRanges \in StimulusSpaces \cup DriverStimulusSpaces |->
        [pRanges \in ParameterSpaces |->
            Tabulated([ss \in SampleSets(ProdSeq(pRanges)) |->
                Tabulated(Gain(ss, pRanges, sRanges))])]]

\* The samples behind each gain vector of a grid.
SamplesByGain ==
    [sRanges \in StimulusSpaces \cup DriverStimulusSpaces |->
        [pRanges \in ParameterSpaces |->
            LET table == GainTable[sRanges][pRanges]
            IN  Tabulated([g \in {table[ss] : ss \in DOMAIN table} |->
                    {ss \in DOMAIN table : table[ss] = g}])]]

\* The gain vectors next() can compute from the posterior post: those of the
\* samples numpy.random.choice can draw, which have no entry of probability 0.
PossibleGains(post, pRanges, sRanges) ==
    {g \in DOMAIN SamplesByGain[sRanges][pRanges] :
        \E ss \in SamplesByGain[sRanges][pRanges][g] :
            \A k \in 1..Len(ss) : post.num[ss[k] + 1] > 0}

\* The flat stimulus indices numpy.argsort(-gain) may put at position
\* position (from 0): fewer than position+1 stimuli have a greater gain and
\* more than position have one at least as great.  Ties are in any order.
ArgsortAt(g, position) ==
    {j \in 0..(Len(g) - 1) :
        /\ Cardinality({i \in 1..Len(g) : g[i] > g[j + 1]}) <= position
        /\ Cardinality({i \in 1..Len(g) : g[i] >= g[j + 1]}) > position}

\* A plausible slip: the draw is scaled to the whole grid.
RandIndexWholeGrid(u, stimComboCount) == (u * stimComboCount) \div RandRes

\* int(numpy.random.rand()*self.stimComboCount/10) for rand() = u / RandRes
RandIndex(u, stimComboCount) == (u * stimComboCount) \div (10 * RandRes)

\* The values randIndex can take.
RandIndices(stimComboCount) ==
    {RandIndex(u, stimComboCount) : u \in 0..(RandRes - 1)}

-----------------------------------------------------------------------------
(* The estimator *)

\* QCSF.__init__, the grids given
Constructed ==
    /\ probabilities = Uniform(ProdSeq(parameterRanges))
    /\ currentStimulusIndex = <<>>
    /\ currentStimParamIndices = <<>>
    /\ responseHistory = <<>>
    /\ gain = <<>>
    /\ randIndex = -1
    /\ protocol = "READY_FOR_NEXT"
    /\ updates = 0
    /\ lastCall = [op |-> "__init__", ok |-> TRUE, omitted |-> FALSE,
                   misuse |-> FALSE, ret |-> <<>>]

Init ==
    /\ stimulusRanges \in StimulusSpaces
    /\ parameterRanges \in ParameterSpaces
    /\ Constructed
    /\ pureCall = [fn |-> "none"]

\* A plausible slip: next() stores the distribution it sampled from anew and
\* logs the selection as a trial.
NextFrameLeak ==
    /\ probabilities' = Uniform(ProdSeq(parameterRanges))
    /\ responseHistory' = Append(responseHistory, <<currentStimulusIndex', FALSE>>)
    /\ UNCHANGED <<stimulusRanges, parameterRanges, updates, pureCall>>

\* What next() assigns nothing to.
NextFrame ==
    UNCHANGED <<stimulusRanges, parameterRanges, probabilities, responseHistory,
                updates, pureCall>>

\* next(): sample parameters from the posterior, rank the stimuli by gain,
\* take the one at a random position of the first tenth, record and return it.
nextCall ==
    \E g \in PossibleGains(probabilities, parameterRanges, stimulusRanges),
       r \in RandIndices(ProdSeq(stimulusRanges)) :
        /\ \E j \in ArgsortAt(g, r) :
               /\ gain' = g
               /\ randIndex' = r
               /\ currentStimulusIndex' = <<j>>
               /\ currentStimParamIndices' = Inflate(j, stimulusRanges)
        /\ lastCall' = [op |-> "next", ok |-> TRUE, omitted |-> FALSE,
                        misuse |-> protocol = "AWAITING_RESPONSE",
                        ret |-> currentStimParamIndices']
        /\ protocol' = "AWAITING_RESPONSE"
        /\ NextFrame

\* A plausible slip: the current stimulus is used for one response only.
DefaultStimulusOnce(stimIndex) ==
    IF stimIndex # <<>> THEN stimIndex
    ELSE IF protocol = "AWAITING_RESPONSE" THEN currentStimulusIndex
    ELSE <<>>

\* if stimIndex is None: stimIndex = self.currentStimulusIndex
DefaultStimulus(stimIndex) ==
    IF stimIndex = <<>> THEN currentStimulusIndex ELSE stimIndex

\* markResponse(response, stimIndex): the record is appended first; _pmeas
\* then raises on a stimulus of None (None has no repeat), and otherwise the
\* posterior is multiplied by the likelihood and normalized.
markResponseCall(response, stimIndexArg) ==
    LET stimIndex == DefaultStimulus(stimIndexArg)
    IN  /\ responseHistory' = Append(responseHistory, <<stimIndex, response>>)
        /\ IF stimIndex = <<>>
           THEN /\ lastCall' = [op |-> "markResponse", ok |-> FALSE,
                                omitted |-> TRUE,
                                misuse |-> protocol = "READY_FOR_NEXT",
                                ret |-> <<>>]
                /\ UNCHANGED <<probabilities, updates, protocol>>
           ELSE /\ probabilities' = Update(probabilities, response, stimIndex,
                                           parameterRanges, stimulusRanges)
                /\ updates' = updates + 1
                /\ protocol' = "READY_FOR_NEXT"
                /\ lastCall' = [op |-> "markResponse", ok |-> TRUE,
                                omitted |-> stimIndexArg = <<>>,
                                misuse |-> stimIndexArg = <<>> /\ protocol = "READY_FOR_NEXT",
                                ret |-> <<>>]
        /\ gain' = <<>>
        /\ randIndex' = -1
        /\ UNCHANGED <<stimulusRanges, parameterRanges, currentStimulusIndex,
                       currentStimParamIndices, pureCall>>

\* A call of next() by any caller, in any protocol state, while the history
\* is short of MaxTrials records.
next ==
    /\ Len(responseHistory) < MaxTrials
    /\ nextCall

\* A call of markResponse by any caller: either response, the stimulus
\* omitted or any stimulus of the grid.
markResponse ==
    \E response \in BOOLEAN,
       stimIndexArg \in {<<>>} \cup {<<s>> : s \in 0..(ProdSeq(stimulusRanges) - 1)} :
        /\ Len(responseHistory) < MaxTrials
        /\ markResponseCall(response, stimIndexArg)

Next == next \/ markResponse

Spec == Init /\ [][Next]_vars

-----------------------------------------------------------------------------
(* The trial loop of the script *)

DriverInit ==
    /\ stimulusRanges \in DriverStimulusSpaces
    /\ parameterRanges \in ParameterSpaces
    /\ Constructed
    /\ pureCall = [fn |-> "none"]

\* newStimValues = qcsf.next(), once per trial
DriverSelect ==
    /\ protocol = "READY_FOR_NEXT"
    /\ updates < DriverTrials
    /\ nextCall

\* qcsf.markResponse(response), the response simulated either way
DriverRespond ==
    /\ protocol = "AWAITING_RESPONSE"
    /\ \E response \in BOOLEAN : markResponseCall(response, <<>>)

DriverNext == DriverSelect \/ DriverRespond

DriverSpec == DriverInit /\ [][DriverNext]_vars

-----------------------------------------------------------------------------
(* The pure functions, called on their own *)

\* Grids have up to MaxDims dimensions of up to MaxCard values each.
MaxDims == 4
MaxCard == 3

\* Parameter and frequency indices of the calls of csf.
MaxFreqIdx == 6
MaxBwIdx == 4
PeakSensitivityIdxs == {0, 10, 27}
DeltaIdxs == {0, 5, 10, 15, 20}

Grids == UNION {[1..n -> 1..MaxCard] : n \in 1..MaxDims}

\* The full stimulus grid, numpy.arange(self.stimComboCount)
AllStimuli(sRanges) == [j \in 1..ProdSeq(sRanges) |-> j - 1]

\* The calls to make: _inflate on an in-range flat index of a grid.
InflateCalled ==
    \E ranges \in Grids :
        \E index \in 0..(ProdSeq(ranges) - 1) :
            pureCall = [fn |-> "_inflate", done |-> FALSE, ranges |-> ranges,
                        index |-> index]

\* csf on a parameter row and a frequency index.
CsfCalled ==
    \E ps \in PeakSensitivityIdxs, pf \in 0..MaxFreqIdx, bw \in 0..MaxBwIdx,
       dl \in DeltaIdxs, freqNum \in 0..MaxFreqIdx :
        pureCall = [fn |-> "csf", done |-> FALSE, parameters |-> <<ps, pf, bw, dl>>,
                    freqNum |-> freqNum]

\* _pmeas on a contrast x frequency grid for one flat parameter index and
\* either the full grid (as next() calls it) or one stimulus (as markResponse
\* and sim call it).
PmeasCalled ==
    \E sRanges \in [1..2 -> 1..MaxCard], pRanges \in ParameterSpaces :
        \E parameterIndex \in 0..(ProdSeq(pRanges) - 1),
           stimulusIndex \in {AllStimuli(sRanges)}
                               \cup {<<s>> : s \in 0..(ProdSeq(sRanges) - 1)} :
            pureCall = [fn |-> "_pmeas", done |-> FALSE, sRanges |-> sRanges,
                        pRanges |-> pRanges, parameterIndex |-> parameterIndex,
                        stimulusIndex |-> stimulusIndex]

PureInit ==
    /\ stimulusRanges \in StimulusSpaces
    /\ parameterRanges \in ParameterSpaces
    /\ Constructed
    /\ InflateCalled \/ CsfCalled \/ PmeasCalled

\* indices = self._inflate(index, ranges)
InflateCall ==
    /\ pureCall.fn = "_inflate"
    /\ ~pureCall.done
    /\ pureCall' = [fn |-> "_inflate", done |-> TRUE, ranges |-> pureCall.ranges,
                    index |-> pureCall.index,
                    out |-> Inflate(pureCall.index, pureCall.ranges)]
    /\ UNCHANGED estimatorVars

\* sensitivity = self.csf(parameters, freqNum)
CsfCall ==
    /\ pureCall.fn = "csf"
    /\ ~pureCall.done
    /\ pureCall' = [fn |-> "csf", done |-> TRUE, parameters |-> pureCall.parameters,
                    freqNum |-> pureCall.freqNum,
                    out |-> csf(pureCall.parameters, pureCall.freqNum)]
    /\ UNCHANGED estimatorVars

\* p = self._pmeas(parameterIndex, stimulusIndex), with the branch it took and
\* the <<contrast, frequency>> indices each column of the result was computed
\* from.
PmeasCall ==
    /\ pureCall.fn = "_pmeas"
    /\ ~pureCall.done
    /\ pureCall' = [fn |-> "_pmeas", done |-> TRUE, sRanges |-> pureCall.sRanges,
                    pRanges |-> pureCall.pRanges,
                    parameterIndex |-> pureCall.parameterIndex,
                    stimulusIndex |-> pureCall.stimulusIndex,
                    branch |-> IF PmeasTakesBulk(pureCall.sRanges) THEN "bulk"
                               ELSE "general",
                    columns |-> PmeasColumns(pureCall.stimulusIndex, pureCall.sRanges),
                    out |-> Pmeas(pureCall.parameterIndex, pureCall.stimulusIndex,
                                  pureCall.pRanges, pureCall.sRanges)]
    /\ UNCHANGED estimatorVars

PureNext == InflateCall \/ CsfCall \/ PmeasCall

PureSpec == PureInit /\ [][PureNext]_vars

-----------------------------------------------------------------------------
(* Properties *)

RECURSIVE Flatten(_, _)
\* The mixed-radix encoding of a multi-index, dimension 0 least significant:
\* digits[1] + ranges[1] * (digits[2] + ranges[2] * (...)).
Flatten(digits, ranges) ==
    IF digits = <<>> THEN 0
    ELSE digits[1] + ranges[1] * Flatten(Tail(digits), Tail(ranges))

\* Digit k (from 1) of flat index i, by division: floor(i / (ranges[1] * ... *
\* ranges[k-1])) mod ranges[k].
Digit(i, k, ranges) == (i \div ProdSeq(SubSeq(ranges, 1, k - 1))) % ranges[k]

InflateDone == pureCall.fn = "_inflate" /\ pureCall.done

\* C1: _inflate of an in-range flat index of any grid yields one digit per
\* dimension, digit i within [0, cardinality[i]), and the mixed-radix
\* encoding of the digits, dimension 0 least significant, is the flat index.
C1_IndexRoundTrip ==
    InflateDone =>
        /\ Len(pureCall.out) = Len(pureCall.ranges)
        /\ \A i \in 1..Len(pureCall.ranges) :
               pureCall.out[i] \in 0..(pureCall.ranges[i] - 1)
        /\ Flatten(pureCall.out, pureCall.ranges) = pureCall.index

\* A 4-dimensional grid of unequal cardinalities, inflated at its last index.
C1_Witness ==
    /\ InflateDone
    /\ pureCall.ranges = <<2, 3, 2, 3>>
    /\ pureCall.index = 35
    /\ pureCall.out = <<1, 2, 1, 2>>

\* C2: the posterior has one entry per flat parameter index, every entry is
\* >= 0 and the entries sum to 1 (the numerators sum to the denominator), in
\* the initial state and after every markResponse.
C2_PosteriorNormalized ==
    /\ Len(probabilities.num) = ProdSeq(parameterRanges)
    /\ \A i \in 1..Len(probabilities.num) : probabilities.num[i] >= 0
    /\ probabilities.den > 0
    /\ SumSeq(probabilities.num) = probabilities.den

\* Two updates were applied and the posterior is no longer uniform.
C2_Witness ==
    /\ updates >= 2
    /\ \E i, j \in 1..Len(probabilities.num) : probabilities.num[i] # probabilities.num[j]

\* The trials whose update was applied, in order.
AppliedTrials == SelectSeq(responseHistory, LAMBDA rec : rec[1] # <<>>)

RECURSIVE Replay(_, _)
\* The posterior after the updates of trials, one after the other, from post.
Replay(post, trials) ==
    IF trials = <<>> THEN post
    ELSE Replay(Update(post, trials[1][2], trials[1][1], parameterRanges, stimulusRanges),
                Tail(trials))

\* trials with the trials at k and k+1 exchanged
SwapAt(trials, k) ==
    [i \in 1..Len(trials) |->
        IF i = k THEN trials[k + 1] ELSE IF i = k + 1 THEN trials[k] ELSE trials[i]]

\* C3: the posterior reached by the updates in the order they were made is
\* the posterior the same updates yield with any two consecutive trials
\* (s1,r1), (s2,r2) applied in the other order.
C3_OrderInvariant ==
    \A k \in 1..(Len(AppliedTrials) - 1) :
        probabilities =
            Replay(Uniform(ProdSeq(parameterRanges)), SwapAt(AppliedTrials, k))

\* Two trials on different stimuli with different responses were applied.
C3_Witness ==
    /\ Len(AppliedTrials) >= 2
    /\ AppliedTrials[1][1] # AppliedTrials[2][1]
    /\ AppliedTrials[1][2] # AppliedTrials[2][2]
    /\ Update(Uniform(ProdSeq(parameterRanges)), AppliedTrials[1][2], AppliedTrials[1][1],
              parameterRanges, stimulusRanges)
         # Update(Uniform(ProdSeq(parameterRanges)), AppliedTrials[2][2],
                  AppliedTrials[2][1], parameterRanges, stimulusRanges)

\* C4: for every parameter dimension k, margin(k) has one entry per value v
\* of the dimension, the entry is the posterior summed over exactly the flat
\* indices whose digit k is v, and the entries sum to 1.
C4_MarginalConsistency ==
    \A k \in 1..Len(parameterRanges) :
        /\ DOMAIN margin(k) = 0..(parameterRanges[k] - 1)
        /\ \A v \in 0..(parameterRanges[k] - 1) :
               margin(k)[v] =
                   SumSeq([i \in 1..Len(probabilities.num) |->
                       IF Digit(i - 1, k, parameterRanges) = v
                       THEN probabilities.num[i] ELSE 0])
        /\ SumSeq([v \in 1..parameterRanges[k] |-> margin(k)[v - 1]]) = probabilities.den

\* After an update, two marginals that are not uniform.
C4_Witness ==
    /\ updates >= 1
    /\ margin(1)[0] # margin(1)[1]
    /\ margin(2)[0] # margin(2)[1]

CsfTruncationCase ==
    /\ pureCall.fn = "csf"
    /\ pureCall.done
    /\ pureCall.parameters[1] = 10
    /\ pureCall.parameters[2] = 5
    /\ pureCall.freqNum < pureCall.parameters[2]

\* peakSensitivity - delta of the parameters of the call
CsfCallCutoff ==
    mapCSFParams(pureCall.parameters)[1] - mapCSFParams(pureCall.parameters)[4]

\* C5, as claimed: for peakSensitivity index 10, peakFrequency index 5 and a
\* frequency index below the peak's, csf never exceeds peakSensitivity - delta.
C5_NeverExceedsCutoff == CsfTruncationCase => pureCall.out <= CsfCallCutoff

\* C5, amended: for peakSensitivity index 10, peakFrequency index 5 and a
\* frequency index below the peak's, csf is never below peakSensitivity -
\* delta: the cutoff is a floor.
C5_NeverBelowCutoff == CsfTruncationCase => pureCall.out >= CsfCallCutoff

\* Below the peak and strictly above the cutoff.
C5_Witness == CsfTruncationCase /\ pureCall.out > CsfCallCutoff

\* C6: a call of next() leaves the posterior and the trial history as they
\* were; a step that changes the posterior is a step of markResponse.
C6_NextFrame ==
    [][/\ lastCall'.op = "next" =>
              /\ probabilities' = probabilities
              /\ responseHistory' = responseHistory
       /\ probabilities' # probabilities => lastCall'.op = "markResponse"]_vars

\* next() was called with a trial in the history and an updated posterior.
C6_Witness ==
    /\ lastCall.op = "next"
    /\ updates >= 1
    /\ probabilities # Uniform(ProdSeq(parameterRanges))

\* C7, as claimed: the number of trial records is the number of Bayesian
\* updates applied, a failed markResponse included.
C7_HistoryMatchesUpdates == Len(responseHistory) = updates

\* C8, as claimed: a next() while a response is awaited, and a markResponse()
\* with the stimulus omitted while none is pending, is detected: the call
\* does not go through.
C8_MisuseDetected == lastCall.misuse => ~lastCall.ok

\* C8, amended: nothing is detected.  next() goes through in either state of
\* the protocol, records the stimulus it returns and leaves a response
\* awaited; markResponse() fails only with the stimulus omitted and no
\* stimulus ever selected, and with the stimulus omitted otherwise records
\* the current stimulus again, answered already or not.
C8_NoMisuseDetected ==
    /\ lastCall.op = "next" =>
           /\ lastCall.ok
           /\ protocol = "AWAITING_RESPONSE"
           /\ currentStimulusIndex # <<>>
           /\ currentStimParamIndices = lastCall.ret
    /\ (lastCall.op = "markResponse" /\ ~lastCall.ok) =>
           /\ lastCall.omitted
           /\ currentStimulusIndex = <<>>
    /\ (lastCall.op = "markResponse" /\ lastCall.ok /\ lastCall.omitted) =>
           /\ protocol = "READY_FOR_NEXT"
           /\ currentStimulusIndex # <<>>
           /\ responseHistory[Len(responseHistory)][1] = currentStimulusIndex

\* One selected stimulus answered twice: the second markResponse() found no
\* response awaited and went through.
C8_Witness ==
    /\ lastCall.op = "markResponse"
    /\ lastCall.misuse
    /\ lastCall.ok
    /\ updates >= 2

\* C9: after next(), the current stimulus is a flat index of the grid at
\* position randIndex of the descending-gain ranking, that position is
\* strictly less than stimComboCount/10 (0 on a grid of fewer than 10
\* stimuli), so fewer than a tenth of the stimuli have a greater gain; the
\* recorded multi-index is the inflate of the flat index and is what next()
\* returned.
C9_TopDecile ==
    lastCall.op = "next" =>
        LET stimComboCount == ProdSeq(stimulusRanges)
        IN  /\ Len(currentStimulusIndex) = 1
            /\ currentStimulusIndex[1] \in 0..(stimComboCount - 1)
            /\ randIndex >= 0
            /\ 10 * randIndex < stimComboCount
            /\ stimComboCount < 10 => randIndex = 0
            /\ currentStimulusIndex[1] \in ArgsortAt(gain, randIndex)
            /\ 10 * Cardinality({i \in 1..Len(gain) :
                       gain[i] > gain[currentStimulusIndex[1] + 1]}) < stimComboCount
            /\ currentStimParamIndices = Inflate(currentStimulusIndex[1], stimulusRanges)
            /\ lastCall.ret = currentStimParamIndices

\* On the grid of 20 stimuli, the stimulus at position 1, which is not a best one.
C9_Witness ==
    /\ lastCall.op = "next"
    /\ ProdSeq(stimulusRanges) = 20
    /\ randIndex = 1
    /\ \E i \in 1..Len(gain) : gain[i] > gain[currentStimulusIndex[1] + 1]

PmeasFullGridDone ==
    /\ pureCall.fn = "_pmeas"
    /\ pureCall.done
    /\ pureCall.stimulusIndex = AllStimuli(pureCall.sRanges)

\* C10, as claimed: _pmeas on the full stimulus grid takes the special-case
\* branch, and column j of its result is computed from contrast index
\* j mod C and frequency index floor(j / C), the digits of inflate(j), so
\* that it has the value of the single-stimulus path on flat index j.
C10_BulkPathOnFullGrid ==
    PmeasFullGridDone =>
        /\ pureCall.branch = "bulk"
        /\ Len(pureCall.out) = ProdSeq(pureCall.sRanges)
        /\ \A j \in 0..(ProdSeq(pureCall.sRanges) - 1) :
               /\ pureCall.columns[j + 1] =
                      << j % pureCall.sRanges[1], j \div pureCall.sRanges[1] >>
               /\ pureCall.out[j + 1] =
                      PmeasValue(csf(Inflate(pureCall.parameterIndex, pureCall.pRanges),
                                     j \div pureCall.sRanges[1]),
                                 j % pureCall.sRanges[1])

====
